---- MODULE Spec2Model ----
(***************************************************************************)
(* Quota Shield 2.0 (src/utils/gemini_utils.py): the persisted per-key     *)
(* quota ledger, the response cache and the retry loop of call_gemini,     *)
(* for one process calling call_gemini sequentially.                       *)
(*                                                                         *)
(* Time is counted in ticks of half a second (Secs(s) ticks make s         *)
(* seconds), so that the 7.5 s sleep after a 429 is a whole number.        *)
(* The calendar date is the day number of the clock.                       *)
(***************************************************************************)
EXTENDS Integers, Sequences, FiniteSets, TLC

\* ------------------------------------------------------------- bounds
MaxKeys == 2          \* at most this many configured API keys
MaxPrompts == 2       \* prompts are 1..MaxPrompts
MaxProcs == 2         \* processes sharing the ledger and cache files
MaxEvents == 2        \* invocations of call_gemini plus provider answers explored
MaxValueLen == 4      \* GOOGLE_API_KEY holds at most this many characters

\* ---------------------------------------------------- program constants
rpm_limit == 10
rpd_limit == 1000
MinuteWindow == 60
KeySpacing == 6
CacheTTL == 172800
CacheCap == 2000
EvictCount == 100
RetryCeiling == 20
DefaultWait == 15
FaultSleep == 5
CoolDownBase == 10
SecondsPerDay == 86400

Secs(s) == s * 2
Today(t) == t \div Secs(SecondsPerDay)

None == "None"        \* Python's None where a string is expected
NoKey == -1
Raises == -2
Malformed == "Malformed"   \* a 200 body without candidates[0].content.parts[0].text
TransportFault == 0        \* requests.post raised: there is no status

VARIABLES
    env,          \* GOOGLE_API_KEY in the environment: [set, text], the text a
                  \* sequence of characters
    nkeys,        \* len(shield.keys)
    now,          \* time.time(), in ticks
    quota_file,   \* quota_states.json: [exists, json, data]; json is what
                  \* json.load makes of it: "none", "object" or "array"
    states,       \* shield.states, the ledger in memory
    cache,        \* gemini_cache.json: entries in insertion order
    pc,           \* where the caller is in call_gemini ("raised": an
                  \* exception left it)
    prompt,       \* the prompt of the current (or last) call
    retry,        \* the loop variable of call_gemini
    key_idx,      \* the key selected for the request in flight
    result,       \* what the last call returned
    last_status,  \* history: status of the last provider answer in this call
    last_details, \* history: the retryDelay entries of that answer
    n_success,    \* history: record_success calls made by this call
    t429,         \* history: per key, the time record_attempt(i, 429) last
                  \* completed (a set: empty, or that time)
    okTime,       \* history: per prompt, the time a call last returned the text
                  \* of a 200 answer (a set: empty, or that time)
    events,       \* history: invocations and looping provider answers so far
    n_requests,   \* history: provider requests issued by this call
    scope,        \* what a run explores: events may grow to scope.calls by
                  \* an invocation, to scope.answers by a looping answer; the
                  \* idle times, cool-down sleeps and retryDelay details drawn
    procs,        \* the processes that share the two files, each with what it
                  \* holds in memory: [pc, key_idx, states, cache, prompt,
                  \* response, calls]
    usage,        \* history: per key, the provider requests made with it on
                  \* the day of the last one, how many of all its requests
                  \* started while another was in flight, and when the last
                  \* one was sent (a set: empty, or that time)
    provided      \* history: per fingerprint, the texts the provider returned
                  \* in 200 answers to requests for prompts that have it

vars == <<env, nkeys, now, quota_file, states, cache, pc, prompt, retry, key_idx,
          result, last_status, last_details, n_success, t429, okTime, events,
          n_requests, scope, procs, usage, provided>>

Prompts == 1..MaxPrompts
KeyIndices(n) == 0..(n - 1)
Procs == 1..MaxProcs

\* a process that is in neither save_to_cache nor a request
IdleProc ==
    [pc |-> "idle", key_idx |-> NoKey, states |-> <<>>, cache |-> <<>>,
     prompt |-> 0, response |-> None, calls |-> 0]

\* no request made with a key yet
NoUsage(t) == [day |-> Today(t), made |-> 0, races |-> 0, sent |-> {}]

\* the usage of a key after a request is sent with it at time t, racing with
\* another process's request or not
Issued(u, t, racing) ==
    [day |-> Today(t),
     made |-> (IF u.day = Today(t) THEN u.made ELSE 0) + 1,
     races |-> u.races + (IF racing THEN 1 ELSE 0),
     sent |-> {t}]
Texts == {"", "hello"}

\* hashlib.md5(prompt.encode()).hexdigest(): a fixed map into finitely many
\* values (two here, so that a third prompt collides with the first)
md5(p) == p % 2

\* -------------------------------------------------------------- the keys
Whitespace == {" "}

\* raw_keys.split(','), from position k with the item begun in cur
RECURSIVE split(_, _, _)
split(s, k, cur) ==
    IF k > Len(s) THEN <<cur>>
    ELSE IF s[k] = "," THEN <<cur>> \o split(s, k + 1, <<>>)
    ELSE split(s, k + 1, Append(cur, s[k]))

\* k.strip()
RECURSIVE lstrip(_)
lstrip(s) == IF s # <<>> /\ Head(s) \in Whitespace THEN lstrip(Tail(s)) ELSE s
RECURSIVE rstrip(_)
rstrip(s) ==
    IF s # <<>> /\ s[Len(s)] \in Whitespace
    THEN rstrip(SubSeq(s, 1, Len(s) - 1)) ELSE s
\* variant: only the spaces in front are removed
strip_left_only(s) == lstrip(s)

strip(s) == rstrip(lstrip(s))

\* _load_keys: the pool for the environment e
load_keys(e) ==
    LET raw_keys == IF e.set THEN e.text ELSE <<>> IN
    IF raw_keys = <<>> THEN <<>>
    ELSE LET items == split(raw_keys, 1, <<>>)
             stripped == [i \in 1..Len(items) |-> strip(items[i])]
         IN  SelectSeq(stripped, LAMBDA k : k # <<>>)

\* an environment that configures n keys: unset for none, else "k,k,...,k"
ConfigValue(n) ==
    [set |-> n > 0,
     text |-> [i \in 1..(2 * n - 1) |-> IF i % 2 = 1 THEN "k" ELSE ","]]
KeyLists(counts) == {ConfigValue(n) : n \in counts}

\* ------------------------------------------------------------ the ledger
FreshState(today) ==
    [requests_this_minute |-> 0, last_request_time |-> 0,
     total_requests_today |-> 0, last_reset_date |-> today]

\* variant: a file that does not parse gives a ledger without records
load_states_empty_on_garbage(qf, n, t) ==
    IF qf.json # "none" THEN qf.data
    ELSE IF qf.exists THEN <<>>
    ELSE [i \in KeyIndices(n) |-> FreshState(Today(t))]

\* variant: keys without a record in the file are given a fresh one
load_states_completing(qf, n, t) ==
    IF qf.json = "object"
    THEN [i \in KeyIndices(n) \cup DOMAIN qf.data |->
            IF i \in DOMAIN qf.data THEN qf.data[i] ELSE FreshState(Today(t))]
    ELSE IF qf.json # "none" THEN qf.data
    ELSE [i \in KeyIndices(n) |-> FreshState(Today(t))]

\* _load_states: the file's content when json.load parses it (an object of
\* records, or an array), else a fresh record per configured key
load_states(qf, n, t) ==
    IF qf.json # "none" THEN qf.data
    ELSE [i \in KeyIndices(n) |-> FreshState(Today(t))]

save_states(st) == [exists |-> TRUE, json |-> "object", data |-> st]

\* a slip: the date is never compared, the daily counter never reset
ResetDailyNever(s, t) == s

\* get_available_key, lines 80-81
ResetDaily(s, t) ==
    IF s.last_reset_date # Today(t)
    THEN [s EXCEPT !.total_requests_today = 0, !.last_reset_date = Today(t)]
    ELSE s

\* a slip: the minute counter restarts at 60 s already
ResetMinuteAtSixty(s, t) ==
    IF t - s.last_request_time >= Secs(MinuteWindow)
    THEN [s EXCEPT !.requests_this_minute = 0]
    ELSE s

\* get_available_key, lines 83-84
ResetMinute(s, t) ==
    IF t - s.last_request_time > Secs(MinuteWindow)
    THEN [s EXCEPT !.requests_this_minute = 0]
    ELSE s

\* a slip: the daily limit is not checked
DailyLimitNeverReached(s) == FALSE

\* a slip: the spacing between two uses of a key is not checked
SpacingNotChecked(s, t) == FALSE

\* get_available_key, lines 87-95: the three checks that skip a key
DailyLimitReached(s) == s.total_requests_today >= rpd_limit
TooSoon(s, t) == t - s.last_request_time < Secs(KeySpacing)
MinuteLimitReached(s) == s.requests_this_minute >= rpm_limit

\* the for loop of get_available_key over the shuffled indices, from position k
RECURSIVE ScanKeys(_, _, _, _)
ScanKeys(order, st, t, k) ==
    IF k > Len(order) THEN [states |-> st, idx |-> NoKey]
    ELSE LET i == order[k] IN
         IF i \notin DOMAIN st THEN ScanKeys(order, st, t, k + 1)
         ELSE LET s == ResetMinute(ResetDaily(st[i], t), t)
                  st2 == [st EXCEPT ![i] = s]
              IN  IF DailyLimitReached(s) THEN ScanKeys(order, st2, t, k + 1)
                  ELSE IF TooSoon(s, t) THEN ScanKeys(order, st2, t, k + 1)
                  ELSE IF MinuteLimitReached(s) THEN ScanKeys(order, st2, t, k + 1)
                  ELSE [states |-> st2, idx |-> i]

\* random.shuffle(indices): any order of the configured indices
Shuffles(n) ==
    {o \in [1..n -> KeyIndices(n)] : \A a, b \in 1..n : a # b => o[a] # o[b]}

\* variant: only the first index of the shuffled order is examined
get_first_key_only(qf, n, t, order) ==
    IF qf.json = "array" /\ Len(order) > 0
    THEN [states |-> load_states(qf, n, t), idx |-> Raises]
    ELSE ScanKeys(SubSeq(order, 1, IF n = 0 THEN 0 ELSE 1),
                  load_states(qf, n, t), t, 1)

\* line 76 is self.states.get(...): an array has no get, so the first index
\* visited raises AttributeError
get_available_key(qf, n, t, order) ==
    IF qf.json = "array" /\ Len(order) > 0
    THEN [states |-> load_states(qf, n, t), idx |-> Raises]
    ELSE ScanKeys(order, load_states(qf, n, t), t, 1)

\* a slip: a 429 is recorded like any other status, without the cool-down
record_attempt_no_cooldown(qf, n, index, status_code, t) ==
    LET st == load_states(qf, n, t) IN
    IF index \in DOMAIN st
    THEN [st EXCEPT ![index] = [@ EXCEPT !.last_request_time = t]]
    ELSE st

\* variant: every attempt is counted against the day
record_attempt_counting(qf, n, index, status_code, t) ==
    LET st == load_states(qf, n, t) IN
    IF index \in DOMAIN st
    THEN [st EXCEPT ![index] =
            [@ EXCEPT !.last_request_time = t,
                      !.total_requests_today = @ + 1,
                      !.requests_this_minute =
                          IF status_code = 429 THEN rpm_limit ELSE @]]
    ELSE st

\* record_attempt: the ledger in memory afterwards (saved when index is in it)
record_attempt(qf, n, index, status_code, t) ==
    LET st == load_states(qf, n, t) IN
    IF index \in DOMAIN st
    THEN [st EXCEPT ![index] =
            [@ EXCEPT !.last_request_time = t,
                      !.requests_this_minute =
                          IF status_code = 429 THEN rpm_limit ELSE @]]
    ELSE st

\* variant: the success is counted twice in the day's total
record_success_twice(qf, n, index, t) ==
    LET st == load_states(qf, n, t) IN
    IF index \in DOMAIN st
    THEN [st EXCEPT ![index] =
            [@ EXCEPT !.requests_this_minute = @ + 1,
                      !.total_requests_today = @ + 2,
                      !.last_request_time = t]]
    ELSE st

\* variant: the success is booked on today's date
record_success_dated(qf, n, index, t) ==
    LET st == load_states(qf, n, t) IN
    IF index \in DOMAIN st
    THEN [st EXCEPT ![index] =
            [@ EXCEPT !.requests_this_minute = @ + 1,
                      !.total_requests_today = @ + 1,
                      !.last_request_time = t,
                      !.last_reset_date = Today(t)]]
    ELSE st

\* record_success: the ledger in memory afterwards (saved when index is in it)
record_success(qf, n, index, t) ==
    LET st == load_states(qf, n, t) IN
    IF index \in DOMAIN st
    THEN [st EXCEPT ![index] =
            [@ EXCEPT !.requests_this_minute = @ + 1,
                      !.total_requests_today = @ + 1,
                      !.last_request_time = t]]
    ELSE st

\* the file after record_attempt / record_success: written only for a known index
SavedIfKnown(qf, n, index, st, t) ==
    IF index \in DOMAIN load_states(qf, n, t) THEN save_states(st) ELSE qf

\* ------------------------------------------------------------- the cache
CacheIndex(c, h) ==
    IF \E k \in 1..Len(c) : c[k].hash = h
    THEN CHOOSE k \in 1..Len(c) : c[k].hash = h
    ELSE 0

\* variant: the first entry of the file is returned, whatever its fingerprint
get_cached_response_of_any(c, p, t) ==
    IF Len(c) > 0 /\ t - c[1].timestamp < Secs(CacheTTL) THEN c[1].response ELSE None

\* variant: an entry exactly 48 h old still counts as fresh
get_cached_response_inclusive(c, p, t) ==
    LET k == CacheIndex(c, md5(p)) IN
    IF k # 0 /\ t - c[k].timestamp <= Secs(CacheTTL) THEN c[k].response ELSE None

\* get_cached_response: the entry's response when younger than 48 h, else None
get_cached_response(c, p, t) ==
    LET k == CacheIndex(c, md5(p)) IN
    IF k # 0 /\ t - c[k].timestamp < Secs(CacheTTL) THEN c[k].response ELSE None

\* variant: the sort is by descending timestamp
SortRankDescending(c, j) ==
    Cardinality({i \in 1..Len(c) :
        \/ c[i].timestamp > c[j].timestamp
        \/ (c[i].timestamp = c[j].timestamp /\ i < j)})

\* variant: the keys are not sorted, the first ones in the file are popped
SortRankInFileOrder(c, j) == j - 1

\* position of entry j in sorted(cache.keys(), key=timestamp), a stable sort
SortRank(c, j) ==
    Cardinality({i \in 1..Len(c) :
        \/ c[i].timestamp < c[j].timestamp
        \/ (c[i].timestamp = c[j].timestamp /\ i < j)})

\* variant: one entry more is popped (sorted_keys[:101])
DropOldestAndOneMore(c, count) ==
    LET dropped == {j \in 1..Len(c) : SortRank(c, j) <= count}
        hole == [d \in dropped |-> d - Cardinality({x \in dropped : x < d})]
    IN  [m \in 1..(Len(c) - Cardinality(dropped)) |->
            c[m + Cardinality({d \in dropped : hole[d] <= m})]]

\* lines 153-154: the cache without the first count entries of that sort, the
\* entries kept staying in their order
DropOldest(c, count) ==
    LET dropped == {j \in 1..Len(c) : SortRank(c, j) < count}
        \* where the hole left by entry d lies among the entries kept
        hole == [d \in dropped |-> d - Cardinality({x \in dropped : x < d})]
    IN  [m \in 1..(Len(c) - Cardinality(dropped)) |->
            c[m + Cardinality({d \in dropped : hole[d] <= m})]]

\* a slip: the cap is not enforced
save_to_cache_unbounded(c, p, response, t) ==
    LET h == md5(p)
        k == CacheIndex(c, h)
        e == [hash |-> h, timestamp |-> t, response |-> response]
    IN  IF k # 0 THEN [c EXCEPT ![k] = e] ELSE Append(c, e)

\* save_to_cache: overwrite or append, then evict the oldest when over the cap
save_to_cache(c, p, response, t) ==
    LET h == md5(p)
        k == CacheIndex(c, h)
        e == [hash |-> h, timestamp |-> t, response |-> response]
        c1 == IF k # 0 THEN [c EXCEPT ![k] = e] ELSE Append(c, e)
    IN  IF Len(c1) > CacheCap THEN DropOldest(c1, EvictCount) ELSE c1

\* ------------------------------------------------------------ call_gemini
\* Python truthiness of an Optional[str]: None and "" are false
Truthy(x) == x # None /\ x # ""

ErrorString(status) == "Error: " \o ToString(status)
ExhaustedString == "Error: Quota Shield 2.0 failed after exhaustive rotation."

\* variant: the suggested delay is taken as it is, without the 2 s added
WaitTimeAsSuggested(details, k, wait) ==
    IF k > Len(details) THEN wait ELSE details[Len(details)]

\* lines 191-198: the last parsable retryDelay plus 2 s, else 15 s; in ticks
RECURSIVE WaitTime(_, _, _)
WaitTime(details, k, wait) ==
    IF k > Len(details) THEN wait
    ELSE WaitTime(details, k + 1, details[k] + Secs(2))

\* the process starts a minute and a half before midnight
StartTime == Secs(SecondsPerDay) * 2 - Secs(MinuteWindow) - Secs(MinuteWindow \div 2)

\* The ledger file outlives the process. A record as earlier runs of today
\* leave it: 999 successes, then a 429 a little more than a minute ago.
WornState(t) ==
    [requests_this_minute |-> rpm_limit,
     last_request_time |-> t - Secs(MinuteWindow) - Secs(1),
     total_requests_today |-> rpd_limit - 1, last_reset_date |-> Today(t)]

InitRecords(t) == {FreshState(Today(t)), WornState(t)}

RetryDetails == {<<>>, <<Secs(118)>>}
Responses ==
    {[status |-> 200, text |-> x, details |-> <<>>] : x \in Texts \cup {Malformed}}
    \cup {[status |-> 429, text |-> None, details |-> d] : d \in RetryDetails}
    \cup {[status |-> s, text |-> None, details |-> <<>>] : s \in {500, TransportFault}}
RequestDurations == {Secs(1)}
CoolDownWaits == {Secs(CoolDownBase + 2), Secs(CoolDownBase + 8)}
IdleSteps == {0, Secs(MinuteWindow) + Secs(1), Secs(CacheTTL)}
SpacedSteps == {Secs(KeySpacing)}

\* what the ledger file may hold at the start: nothing (no file), an object
\* with a record per configured key, text that does not parse, the array [],
\* an object written when the last of the configured keys was not there yet
LedgerFiles(n, kinds) ==
    {f \in {[exists |-> FALSE, json |-> "none", data |-> <<>>]} : "missing" \in kinds}
    \cup {[exists |-> TRUE, json |-> "object", data |-> d] :
            d \in {x \in [KeyIndices(n) -> InitRecords(StartTime)] : "object" \in kinds}}
    \cup {f \in {[exists |-> TRUE, json |-> "none", data |-> <<>>]} : "garbage" \in kinds}
    \cup {f \in {[exists |-> TRUE, json |-> "array", data |-> <<>>]} : "array" \in kinds}
    \cup {[exists |-> TRUE, json |-> "object", data |-> d] :
            d \in {x \in [KeyIndices(n - 1) -> InitRecords(StartTime)] :
                        "partial" \in kinds}}

\* the state after construction, for the environments, the kinds of ledger
\* file, the cache files and the scope given
StartsWith(values, kinds, caches, sc) ==
    /\ env \in values
    /\ nkeys = Len(load_keys(env))
    /\ now = StartTime
    /\ quota_file \in LedgerFiles(nkeys, kinds)
    /\ states = load_states(quota_file, nkeys, now)
    /\ cache \in caches
    /\ pc = "idle"
    /\ prompt = 1
    /\ retry = 0
    /\ key_idx = NoKey
    /\ result = None
    /\ last_status = 0
    /\ last_details = <<>>
    /\ n_success = 0
    /\ t429 = [i \in KeyIndices(MaxKeys) |-> {}]
    /\ okTime = [p \in Prompts |-> {}]
    /\ events = 0
    /\ n_requests = 0
    /\ scope = sc
    /\ procs = [w \in Procs |-> IdleProc]
    /\ usage = [i \in KeyIndices(MaxKeys) |-> NoUsage(StartTime)]
    /\ provided = [h \in {md5(p) : p \in Prompts} |-> {}]

Init ==
    StartsWith(KeyLists(0..MaxKeys), {"missing", "object"}, {<<>>},
               [calls |-> MaxEvents, answers |-> MaxEvents, idle |-> IdleSteps,
                waits |-> CoolDownWaits, details |-> RetryDetails])

\* after d ticks of other work the caller invokes call_gemini(p)
Invoke(p, d) ==
    /\ pc \in {"idle", "done", "raised"}
    /\ d \in scope.idle
    /\ events < scope.calls
    /\ events' = events + 1
    /\ n_requests' = 0
    /\ now' = now + d
    /\ pc' = "lookup"
    /\ prompt' = p
    /\ retry' = 0
    /\ key_idx' = NoKey
    /\ result' = None
    /\ last_status' = 0
    /\ last_details' = <<>>
    /\ n_success' = 0
    /\ UNCHANGED <<env, nkeys, quota_file, states, cache, t429, okTime, provided, scope, procs, usage>>

\* lines 162-165: the cache check
CacheCheck ==
    /\ pc = "lookup"
    /\ LET cached == get_cached_response(cache, prompt, now) IN
       IF Truthy(cached)
       THEN pc' = "done" /\ result' = cached
       ELSE pc' = "loop" /\ result' = result
    /\ UNCHANGED <<env, nkeys, now, quota_file, states, cache, prompt, retry, key_idx,
                   last_status, last_details, n_success, t429, okTime, provided, events, n_requests,
                   scope, procs, usage>>

\* lines 169-171 and 211-215: one key selection, and the sleep when none is free
SelectKey ==
    /\ pc = "loop"
    /\ retry < RetryCeiling
    /\ \E order \in Shuffles(nkeys) :
        LET r == get_available_key(quota_file, nkeys, now, order) IN
        /\ states' = r.states
        /\ IF r.idx = Raises
           THEN \* the exception leaves call_gemini: line 169 is outside the try
                /\ pc' = "raised"
                /\ UNCHANGED <<now, retry, key_idx, n_requests, usage>>
           ELSE IF r.idx # NoKey
           THEN /\ key_idx' = r.idx
                /\ pc' = "request"
                /\ n_requests' = n_requests + 1
                /\ usage' = [usage EXCEPT ![r.idx] = Issued(@, now, FALSE)]
                /\ UNCHANGED <<now, retry>>
           ELSE /\ \E w \in scope.waits : now' = now + w
                /\ retry' = retry + 1
                /\ UNCHANGED <<key_idx, pc, n_requests, usage>>
    /\ UNCHANGED <<env, nkeys, quota_file, cache, prompt, result, last_status,
                   last_details,
                   n_success, t429, okTime, provided, events, scope,
                   procs>>

\* lines 179-185: the provider answers 200
Respond200(rsp, t) ==
    LET st == record_success(quota_file, nkeys, key_idx, t) IN
    /\ states' = st
    /\ quota_file' = SavedIfKnown(quota_file, nkeys, key_idx, st, t)
    /\ n_success' = n_success + 1
    /\ IF rsp.text = Malformed
       THEN \* line 183 raises, line 208 catches: sleep 5 s, next iteration
            /\ events < scope.answers
            /\ events' = events + 1
            /\ now' = t + Secs(FaultSleep)
            /\ retry' = retry + 1
            /\ pc' = "loop"
            /\ UNCHANGED <<cache, result, okTime, provided>>
       ELSE /\ cache' = save_to_cache(cache, prompt, rsp.text, t)
            /\ result' = rsp.text
            /\ okTime' = [okTime EXCEPT ![prompt] = {t}]
            /\ provided' = [provided EXCEPT ![md5(prompt)] = @ \cup {rsp.text}]
            /\ pc' = "done"
            /\ now' = t
            /\ UNCHANGED <<retry, events>>
    /\ UNCHANGED t429

\* variant: a 429 is returned like any other status
Respond429Returned(rsp, t) ==
    LET st == record_attempt(quota_file, nkeys, key_idx, 429, t) IN
    /\ states' = st
    /\ quota_file' = SavedIfKnown(quota_file, nkeys, key_idx, st, t)
    /\ t429' = [t429 EXCEPT ![key_idx] = {t}]
    /\ result' = ErrorString(429)
    /\ pc' = "done"
    /\ now' = t
    /\ UNCHANGED <<cache, retry, n_success, okTime, provided, events>>

\* lines 187-202: the provider answers 429
Respond429(rsp, t) ==
    LET st == record_attempt(quota_file, nkeys, key_idx, 429, t)
        sleep == WaitTime(rsp.details, 1, Secs(DefaultWait)) \div 2
    IN
    /\ states' = st
    /\ quota_file' = SavedIfKnown(quota_file, nkeys, key_idx, st, t)
    /\ t429' = [t429 EXCEPT ![key_idx] = {t}]
    /\ events < scope.answers
    /\ events' = events + 1
    /\ now' = t + sleep
    /\ retry' = retry + 1
    /\ pc' = "loop"
    /\ UNCHANGED <<cache, result, n_success, okTime, provided>>

\* variant: the attempt is counted like a success
RespondErrorCounted(rsp, t) ==
    LET st == record_success(quota_file, nkeys, key_idx, t) IN
    /\ states' = st
    /\ quota_file' = SavedIfKnown(quota_file, nkeys, key_idx, st, t)
    /\ result' = ErrorString(rsp.status)
    /\ pc' = "done"
    /\ now' = t
    /\ UNCHANGED <<cache, retry, n_success, t429, okTime, provided, events>>

\* lines 204-207: any other status
RespondError(rsp, t) ==
    LET st == record_attempt(quota_file, nkeys, key_idx, rsp.status, t) IN
    /\ states' = st
    /\ quota_file' = SavedIfKnown(quota_file, nkeys, key_idx, st, t)
    /\ result' = ErrorString(rsp.status)
    /\ pc' = "done"
    /\ now' = t
    /\ UNCHANGED <<cache, retry, n_success, t429, okTime, provided, events>>

\* variant: the failed request is recorded as an attempt of its key
RespondFaultRecorded(t) ==
    LET st == record_attempt(quota_file, nkeys, key_idx, TransportFault, t) IN
    /\ events < scope.answers
    /\ events' = events + 1
    /\ now' = t + Secs(FaultSleep)
    /\ retry' = retry + 1
    /\ pc' = "loop"
    /\ states' = st
    /\ quota_file' = SavedIfKnown(quota_file, nkeys, key_idx, st, t)
    /\ UNCHANGED <<cache, result, n_success, t429, okTime, provided>>

\* variant: a failed request does not use up an iteration
RespondFaultUncounted(t) ==
    /\ events < scope.answers
    /\ events' = events + 1
    /\ now' = t + Secs(FaultSleep)
    /\ retry' = retry
    /\ pc' = "loop"
    /\ UNCHANGED <<quota_file, states, cache, result, n_success, t429, okTime, provided>>

\* lines 208-210: requests.post raised
RespondFault(t) ==
    /\ events < scope.answers
    /\ events' = events + 1
    /\ now' = t + Secs(FaultSleep)
    /\ retry' = retry + 1
    /\ pc' = "loop"
    /\ UNCHANGED <<quota_file, states, cache, result, n_success, t429, okTime, provided>>

\* requests.post returns (or raises) after d ticks
Respond(rsp, d) ==
    /\ pc = "request"
    /\ rsp.details \in scope.details
    /\ last_status' = rsp.status
    /\ last_details' = rsp.details
    /\ IF rsp.status = 200 THEN Respond200(rsp, now + d)
       ELSE IF rsp.status = 429 THEN Respond429(rsp, now + d)
       ELSE IF rsp.status = TransportFault THEN RespondFault(now + d)
       ELSE RespondError(rsp, now + d)
    /\ UNCHANGED <<env, nkeys, prompt, key_idx, n_requests, scope, procs, usage>>

\* line 217: the loop ran out
Exhausted ==
    /\ pc = "loop"
    /\ retry = RetryCeiling
    /\ pc' = "done"
    /\ result' = ExhaustedString
    /\ UNCHANGED <<env, nkeys, now, quota_file, states, cache, prompt, retry, key_idx,
                   last_status, last_details, n_success, t429, okTime, provided, events, n_requests,
                   scope, procs, usage>>

Next ==
    \/ \E p \in Prompts, d \in IdleSteps \cup SpacedSteps : Invoke(p, d)
    \/ CacheCheck
    \/ SelectKey
    \/ \E rsp \in Responses, d \in RequestDurations : Respond(rsp, d)
    \/ Exhausted

Spec == Init /\ [][Next]_vars

\* The same program with every key configured or none, its calls six seconds
\* apart, explored one invocation further than Spec: a call, a looping answer,
\* and the call after it.
InitRotation ==
    StartsWith(KeyLists({0, MaxKeys}), {"missing", "object"}, {<<>>},
               [calls |-> MaxEvents + 1, answers |-> MaxEvents,
                idle |-> SpacedSteps, waits |-> CoolDownWaits,
                details |-> RetryDetails])

SpecRotation == InitRotation /\ [][Next]_vars

\* The same program with one key or none, explored along a single call with as
\* many looping answers as the provider cares to give.
InitRetry ==
    StartsWith(KeyLists({0, 1}), {"missing", "object"}, {<<>>},
               [calls |-> 1, answers |-> RetryCeiling + 1,
                idle |-> {0}, waits |-> {Secs(CoolDownBase + 2)},
                details |-> {<<>>}])

SpecRetry == InitRetry /\ [][Next]_vars

\* Every sleep and every provider request returns: a step of the call that can
\* be taken is taken.
FairSpecRetry ==
    /\ SpecRetry
    /\ WF_vars(CacheCheck)
    /\ WF_vars(SelectKey)
    /\ WF_vars(\E rsp \in Responses, d \in RequestDurations : Respond(rsp, d))
    /\ WF_vars(Exhausted)

\* The same program started on every kind of ledger file.
InitShapes ==
    StartsWith(KeyLists(0..MaxKeys), {"missing", "object", "garbage", "array"}, {<<>>},
               [calls |-> MaxEvents, answers |-> MaxEvents, idle |-> IdleSteps,
                waits |-> CoolDownWaits, details |-> RetryDetails])

SpecShapes == InitShapes /\ [][Next]_vars

\* ---------------------------------------------- the cache functions alone
\* A cache file as earlier runs leave it: n entries of other prompts, hashes
\* 1..n, written a second apart up to the start; in file order from the oldest
\* to the newest, or (every entry rewritten since, last to first) from the
\* newest to the oldest.
PriorCache(n, oldestFirst) ==
    [k \in 1..n |->
        [hash |-> k,
         timestamp |-> StartTime - Secs(IF oldestFirst THEN n - k + 1 ELSE k),
         response |-> "old"]]

PriorCaches ==
    {PriorCache(n, o) : n \in {0, 1, CacheCap - 1, CacheCap}, o \in BOOLEAN}

InitCache ==
    StartsWith(KeyLists({0}), {"missing"}, PriorCaches,
               [calls |-> MaxEvents, answers |-> 0, idle |-> {0},
                waits |-> {}, details |-> {}])

\* save_to_cache(p, r) called d ticks later
Store(p, r, d) ==
    /\ pc \in {"idle", "looked"}
    /\ d \in scope.idle
    /\ events < scope.calls
    /\ events' = events + 1
    /\ now' = now + d
    /\ cache' = save_to_cache(cache, p, r, now')
    /\ prompt' = p
    /\ result' = r
    /\ pc' = "stored"
    /\ UNCHANGED <<env, nkeys, quota_file, states, retry, key_idx, last_status,
                   last_details,
                   n_success, t429, okTime, provided, n_requests, scope,
                   procs, usage>>

\* get_cached_response(prompt) called at once
Lookup ==
    /\ pc = "stored"
    /\ result' = get_cached_response(cache, prompt, now)
    /\ pc' = "looked"
    /\ UNCHANGED <<env, nkeys, now, quota_file, states, cache, prompt, retry, key_idx,
                   last_status, last_details, n_success, t429, okTime, provided, events, n_requests,
                   scope, procs, usage>>

NextCache ==
    \/ \E p \in Prompts, r \in Texts, d \in IdleSteps : Store(p, r, d)
    \/ Lookup

SpecCache == InitCache /\ [][NextCache]_vars

\* --------------------------------------------------- the key pool's parsing
\* The same program started with GOOGLE_API_KEY unset, or set to any text of
\* up to MaxValueLen characters, explored along one call.
Chars == {"k", "j", ",", " "}
EnvValues ==
    {[set |-> FALSE, text |-> <<>>]}
    \cup {[set |-> TRUE, text |-> t] :
            t \in UNION {[1..n -> Chars] : n \in 0..MaxValueLen}}

InitKeys ==
    StartsWith(EnvValues, {"missing"}, {<<>>},
               [calls |-> 1, answers |-> 2, idle |-> {0},
                waits |-> {Secs(CoolDownBase + 2)}, details |-> {<<>>}])

SpecKeys == InitKeys /\ [][Next]_vars

\* several processes calling save_to_cache on the one cache file. The file
\* holds the entries of other prompts (hashes from 2 on, the oldest first):
\* none, or one short of the cap, so that the first store fills it. Two stores
\* are followed, by any of the processes.
OthersCache(n) ==
    [k \in 1..n |->
        [hash |-> k + 1, timestamp |-> StartTime - Secs(n - k + 1),
         response |-> "old"]]

InitSharedCache ==
    StartsWith(KeyLists({0}), {"missing"},
               {OthersCache(n) : n \in {0, CacheCap - 1}},
               [calls |-> 2, answers |-> 0, idle |-> {0},
                waits |-> {}, details |-> {}])

\* lines 139-144: process w enters save_to_cache(p, r) and reads the file. A
\* file another process has opened for writing and not yet written is empty
\* or cut short, json.load fails on it and the cache stays {}
LoadCache(w, p, r) ==
    /\ procs[w].pc = "idle"
    /\ events < scope.calls
    /\ events' = events + 1
    /\ procs' = [procs EXCEPT ![w] =
                    [@ EXCEPT !.pc = "loaded", !.cache = cache,
                              !.prompt = p, !.response = r]]
    /\ UNCHANGED <<env, nkeys, now, quota_file, states, cache, pc, prompt, retry,
                   key_idx, result, last_status, last_details, n_success, t429,
                   okTime, provided, n_requests, scope, usage>>

\* lines 146-155: the entry is put into the dictionary in memory, the oldest
\* entries are dropped from it if it is over the cap, and open(..., 'w')
\* empties the file
OpenCache(w) ==
    /\ procs[w].pc = "loaded"
    /\ procs' = [procs EXCEPT ![w] =
                    [@ EXCEPT !.pc = "opened",
                              !.cache = save_to_cache(@, procs[w].prompt,
                                                      procs[w].response, now)]]
    /\ cache' = <<>>
    /\ UNCHANGED <<env, nkeys, now, quota_file, states, pc, prompt, retry,
                   key_idx, result, last_status, last_details, n_success, t429,
                   okTime, provided, events, n_requests, scope, usage>>

\* line 156: json.dump writes the dictionary. Every other process that has the
\* file open writes from the start of the file too: what it writes later lands
\* on top of this, and the file is its text or, when its text is the shorter,
\* a mixture that does not parse. save_to_cache returns and its dictionary is
\* gone; the prompt of the completed store stays on record
DumpCache(w) ==
    /\ procs[w].pc \in {"opened", "overlapped"}
    /\ cache' \in {procs[w].cache} \cup
                  (IF procs[w].pc = "overlapped" THEN {<<>>} ELSE {})
    /\ procs' = [v \in Procs |->
                    IF v = w THEN [IdleProc EXCEPT !.prompt = procs[w].prompt]
                    ELSE IF procs[v].pc = "opened"
                    THEN [procs[v] EXCEPT !.pc = "overlapped"]
                    ELSE procs[v]]
    /\ UNCHANGED <<env, nkeys, now, quota_file, states, pc, prompt, retry,
                   key_idx, result, last_status, last_details, n_success, t429,
                   okTime, provided, events, n_requests, scope, usage>>

NextSharedCache ==
    \/ \E w \in Procs, p \in Prompts : LoadCache(w, p, "hello")
    \/ \E w \in Procs : OpenCache(w)
    \/ \E w \in Procs : DumpCache(w)

SpecSharedCache == InitSharedCache /\ [][NextSharedCache]_vars

\* several processes, each with its own QuotaShield, on the one ledger file:
\* one key, whose record an earlier run of today left fresh or worn. Every
\* request is answered 200. The first process calls again and again, a minute
\* and a second after its last answer; every other process makes one request,
\* at the time of one of the first calls of the first.
InitLedger ==
    StartsWith(KeyLists({1}), {"object"}, {<<>>},
               [calls |-> rpd_limit + MaxEvents + 1, answers |-> 0,
                idle |-> {Secs(MinuteWindow) + Secs(1)},
                waits |-> {}, details |-> {}])

\* a request made by another process with key i has not been recorded yet
InFlight(w, i) ==
    \E v \in Procs \ {w} :
        procs[v].key_idx = i /\ procs[v].pc \in {"request", "loaded"}

\* the ledger file between open(QUOTA_FILE, 'w') and the end of json.dump:
\* empty or cut short, json.load fails on it
BeingWritten == [exists |-> TRUE, json |-> "none", data |-> <<>>]

\* lines 65-99 and 179: process w gets a key from get_available_key and sends
\* its request
ProcSelect(w) ==
    /\ procs[w].pc = "idle"
    /\ procs[w].calls < (IF w = 1 THEN scope.calls ELSE 1)
    /\ w = 1 \/ procs[1].calls <= MaxEvents
    /\ \E order \in Shuffles(nkeys) :
        LET r == get_available_key(quota_file, nkeys, now, order)
            i == r.idx
        IN  /\ i \in KeyIndices(nkeys)
            /\ procs' = [procs EXCEPT ![w] =
                            [@ EXCEPT !.pc = "request", !.key_idx = i,
                                      !.states = r.states,
                                      !.calls = @ + 1]]
            /\ usage' = [usage EXCEPT ![i] = Issued(@, now, InFlight(w, i))]
    /\ UNCHANGED <<env, nkeys, now, quota_file, states, cache, pc, prompt, retry,
                   key_idx, result, last_status, last_details, n_success, t429,
                   okTime, provided, events, n_requests, scope>>

\* line 112: the answer is a 200 and record_success reloads the ledger
ProcLoad(w) ==
    /\ procs[w].pc = "request"
    /\ procs' = [procs EXCEPT ![w] =
                    [@ EXCEPT !.pc = "loaded",
                              !.states = load_states(quota_file, nkeys, now)]]
    /\ UNCHANGED <<env, nkeys, now, quota_file, states, cache, pc, prompt, retry,
                   key_idx, result, last_status, last_details, n_success, t429,
                   okTime, provided, events, n_requests, scope, usage>>

\* lines 113-118 and 60: the record is counted up in memory and _save_states
\* opens the file for writing
ProcOpen(w) ==
    /\ procs[w].pc = "loaded"
    /\ procs' = [procs EXCEPT ![w] =
                    [@ EXCEPT !.pc = "opened",
                              !.states = record_success(save_states(@), nkeys,
                                                        procs[w].key_idx, now)]]
    /\ quota_file' = BeingWritten
    /\ UNCHANGED <<env, nkeys, now, states, cache, pc, prompt, retry,
                   key_idx, result, last_status, last_details, n_success, t429,
                   okTime, provided, events, n_requests, scope, usage>>

\* line 61: json.dump writes the ledger; as with the cache file, the text of a
\* process that had the file open meanwhile lands on top of it
ProcDump(w) ==
    /\ procs[w].pc \in {"opened", "overlapped"}
    /\ quota_file' \in {save_states(procs[w].states)} \cup
                       (IF procs[w].pc = "overlapped" THEN {BeingWritten} ELSE {})
    /\ procs' = [v \in Procs |->
                    IF v = w THEN [IdleProc EXCEPT !.calls = procs[w].calls]
                    ELSE IF procs[v].pc = "opened"
                    THEN [procs[v] EXCEPT !.pc = "overlapped"]
                    ELSE procs[v]]
    /\ UNCHANGED <<env, nkeys, now, states, cache, pc, prompt, retry,
                   key_idx, result, last_status, last_details, n_success, t429,
                   okTime, provided, events, n_requests, scope, usage>>

\* lines 211-215, and the time between two calls: with every process idle and
\* no key to be had, time passes
Pause(d) ==
    /\ d \in scope.idle
    /\ \A w \in Procs : procs[w].pc = "idle"
    /\ \A order \in Shuffles(nkeys) :
        get_available_key(quota_file, nkeys, now, order).idx = NoKey
    /\ now' = now + d
    /\ UNCHANGED <<env, nkeys, quota_file, states, cache, pc, prompt, retry,
                   key_idx, result, last_status, last_details, n_success, t429,
                   okTime, provided, events, n_requests, scope, procs, usage>>

NextLedger ==
    \/ \E w \in Procs : ProcSelect(w)
    \/ \E w \in Procs : ProcLoad(w)
    \/ \E w \in Procs : ProcOpen(w)
    \/ \E w \in Procs : ProcDump(w)
    \/ \E d \in IdleSteps : Pause(d)

SpecLedger == InitLedger /\ [][NextLedger]_vars

\* the cache functions called one at a time on a file whose entry for prompt 1
\* (hash 1, the first in the file) is 48 h old, next to the entries of other
\* prompts: one entry in all, one short of the cap, or the cap. Two calls are
\* followed, a store being made at once or 48 h later.
AgedCache(n) ==
    [k \in 1..n |->
        [hash |-> k,
         timestamp |-> IF k = 1 THEN StartTime - Secs(CacheTTL)
                       ELSE StartTime - Secs(n - k + 1),
         response |-> "old"]]

InitCacheFrame ==
    StartsWith(KeyLists({0}), {"missing"},
               {AgedCache(n) : n \in {1, CacheCap - 1, CacheCap}},
               [calls |-> 2, answers |-> 0, idle |-> {0, Secs(CacheTTL)},
                waits |-> {}, details |-> {}])

\* variant: a lookup that finds the entry expired deletes it from the file
PeekPurging(p) ==
    /\ pc \in {"idle", "looked", "stored"}
    /\ events < scope.calls
    /\ events' = events + 1
    /\ prompt' = p
    /\ result' = get_cached_response(cache, p, now)
    /\ cache' = IF result' = None
                THEN SelectSeq(cache, LAMBDA e : e.hash # md5(p))
                ELSE cache
    /\ pc' = "looked"
    /\ UNCHANGED <<env, nkeys, now, quota_file, states, retry, key_idx,
                   last_status, last_details, n_success, t429, okTime, provided,
                   n_requests, scope, procs, usage>>

\* lines 122-136: get_cached_response(p), for any prompt at any time
Peek(p) ==
    /\ pc \in {"idle", "looked", "stored"}
    /\ events < scope.calls
    /\ events' = events + 1
    /\ prompt' = p
    /\ result' = get_cached_response(cache, p, now)
    /\ pc' = "looked"
    /\ UNCHANGED <<env, nkeys, now, quota_file, states, cache, retry, key_idx,
                   last_status, last_details, n_success, t429, okTime, provided,
                   n_requests, scope, procs, usage>>

NextCacheFrame ==
    \/ \E p \in Prompts, r \in Texts, d \in IdleSteps : Store(p, r, d)
    \/ \E p \in Prompts : Peek(p)

SpecCacheFrame == InitCacheFrame /\ [][NextCacheFrame]_vars

\* one call, with one key or none, as in SpecRetry, where requests.post may
\* also raise at once (the connection is refused): after half a second
FailFast == Secs(1) \div 2

InitQuick ==
    StartsWith(KeyLists({0, 1}), {"missing", "object"}, {<<>>},
               [calls |-> 1, answers |-> RetryCeiling + 1,
                idle |-> {0}, waits |-> {Secs(CoolDownBase + 2)},
                details |-> {<<>>}])

QuickFault ==
    Respond([status |-> TransportFault, text |-> None, details |-> <<>>], FailFast)

NextQuick ==
    \/ Next
    \/ QuickFault

SpecQuick == InitQuick /\ [][NextQuick]_vars

\* calls with a ledger file that was written before the last key was
\* configured: one key and a file without records, or the most keys and a file
\* lacking the last one's record
InitPartial ==
    StartsWith(KeyLists({1, MaxKeys}), {"partial"}, {<<>>},
               [calls |-> MaxEvents, answers |-> MaxEvents, idle |-> IdleSteps,
                waits |-> CoolDownWaits, details |-> RetryDetails])

SpecPartial == InitPartial /\ [][Next]_vars

\* the same processes where no ledger file exists yet: the first
\* record_success creates it. The first process makes a few calls.
InitCreated ==
    StartsWith(KeyLists({1}), {"missing"}, {<<>>},
               [calls |-> MaxEvents + 1, answers |-> 0,
                idle |-> {Secs(MinuteWindow) + Secs(1)},
                waits |-> {}, details |-> {}])

SpecCreated == InitCreated /\ [][NextLedger]_vars

\* the same processes with the most keys, where a request may also be answered
\* 429
InitThrottle ==
    StartsWith(KeyLists({MaxKeys}), {"object"}, {<<>>},
               [calls |-> MaxEvents + 1, answers |-> 0,
                idle |-> {Secs(MinuteWindow) + Secs(1)},
                waits |-> {}, details |-> {}])

\* line 102: the answer is a 429 and record_attempt reloads the ledger
ProcLoad429(w) ==
    /\ procs[w].pc = "request"
    /\ procs' = [procs EXCEPT ![w] =
                    [@ EXCEPT !.pc = "loaded429",
                              !.states = load_states(quota_file, nkeys, now)]]
    /\ UNCHANGED <<env, nkeys, now, quota_file, states, cache, pc, prompt, retry,
                   key_idx, result, last_status, last_details, n_success, t429,
                   okTime, provided, events, n_requests, scope, usage>>

\* lines 103-109: the record is marked in memory and _save_states writes the
\* ledger; record_attempt(i, 429) has completed
ProcSave429(w) ==
    /\ procs[w].pc = "loaded429"
    /\ quota_file' = save_states(record_attempt(save_states(procs[w].states),
                                                nkeys, procs[w].key_idx, 429, now))
    /\ t429' = [t429 EXCEPT ![procs[w].key_idx] = {now}]
    /\ procs' = [v \in Procs |->
                    IF v = w THEN [IdleProc EXCEPT !.calls = procs[w].calls]
                    ELSE IF procs[v].pc = "opened"
                    THEN [procs[v] EXCEPT !.pc = "overlapped"]
                    ELSE procs[v]]
    /\ UNCHANGED <<env, nkeys, now, states, cache, pc, prompt, retry,
                   key_idx, result, last_status, last_details, n_success,
                   okTime, provided, events, n_requests, scope, usage>>

NextThrottle ==
    \/ NextLedger
    \/ \E w \in Procs : ProcLoad429(w)
    \/ \E w \in Procs : ProcSave429(w)

SpecThrottle == InitThrottle /\ [][NextThrottle]_vars

\* Two processes that call call_gemini on one cache file. Key selection and
\* the ledger are left out: they touch neither the cache nor the text returned
Answers == Texts \cup {"other"}

InitGenerate ==
    StartsWith(KeyLists({0}), {"missing"}, {<<>>},
               [calls |-> 3, answers |-> 0,
                idle |-> {Secs(1), Secs(CacheTTL) - Secs(1)},
                waits |-> {}, details |-> {}])

\* lines 163-166: process w calls call_gemini(p); get_cached_response reads the
\* file as it is now, and a truthy entry is returned at once
GenLookup(w, p) ==
    /\ procs[w].pc = "idle"
    /\ events < scope.calls
    /\ events' = events + 1
    /\ LET cached == get_cached_response(cache, p, now) IN
       procs' = [procs EXCEPT ![w] =
                    IF Truthy(cached)
                    THEN [IdleProc EXCEPT !.prompt = p, !.response = cached,
                                          !.calls = procs[w].calls + 1]
                    ELSE [IdleProc EXCEPT !.prompt = p, !.pc = "request"]]
    /\ UNCHANGED <<env, nkeys, now, quota_file, states, cache, pc, prompt, retry,
                   key_idx, result, last_status, last_details, n_success, t429,
                   okTime, n_requests, scope, usage, provided>>

\* lines 181-184 and 139-144: the provider answers 200 with text r, and
\* save_to_cache(p, r) reads the file; r is what the call returns after the
\* store
GenAnswer200(w, r) ==
    /\ procs[w].pc = "request"
    /\ provided' = [provided EXCEPT ![md5(procs[w].prompt)] = @ \cup {r}]
    /\ procs' = [procs EXCEPT ![w] =
                    [@ EXCEPT !.pc = "loaded", !.cache = cache, !.response = r]]
    /\ UNCHANGED <<env, nkeys, now, quota_file, states, cache, pc, prompt, retry,
                   key_idx, result, last_status, last_details, n_success, t429,
                   okTime, events, n_requests, scope, usage>>

\* lines 204-207 and 217: the call ends with a failure value, nothing is
\* stored
GenFail(w) ==
    /\ procs[w].pc = "request"
    /\ procs' = [procs EXCEPT ![w] = [IdleProc EXCEPT !.prompt = procs[w].prompt]]
    /\ UNCHANGED <<env, nkeys, now, quota_file, states, cache, pc, prompt, retry,
                   key_idx, result, last_status, last_details, n_success, t429,
                   okTime, events, n_requests, scope, usage, provided>>

\* time passes: to a second before the lifetime of an entry stored at the
\* start ends, and from there second by second
Elapse(d) ==
    /\ d \in scope.idle
    /\ d = Secs(1) => now >= StartTime + Secs(CacheTTL) - Secs(1)
    /\ now + d <= StartTime + Secs(CacheTTL) + Secs(1)
    /\ now' = now + d
    /\ UNCHANGED <<env, nkeys, quota_file, states, cache, pc, prompt, retry,
                   key_idx, result, last_status, last_details, n_success, t429,
                   okTime, events, n_requests, scope, procs, usage, provided>>

NextGenerate ==
    \/ \E w \in Procs, p \in Prompts : GenLookup(w, p)
    \/ \E w \in Procs, r \in Answers : GenAnswer200(w, r)
    \/ \E w \in Procs : GenFail(w)
    \/ \E w \in Procs : OpenCache(w)
    \/ \E w \in Procs : DumpCache(w)
    \/ \E d \in {Secs(1), Secs(CacheTTL) - Secs(1)} : Elapse(d)

SpecGenerate == InitGenerate /\ [][NextGenerate]_vars

\* ------------------------------------------------------------ the claims
\* the persisted record of key i
Persisted(i) == quota_file.data[i]
PersistedKeys == IF quota_file.exists THEN DOMAIN quota_file.data ELSE {}

\* the step in which the provider's 200 answer for key_idx is handled and the
\* call returns its text
ReturnsText == pc = "request" /\ pc' = "done" /\ last_status' = 200

\* C1: the persisted total_requests_today of every key never exceeds the
\* per-day limit, also across calendar-date changes.
C1_DailyCounterWithinLimit ==
    \A i \in PersistedKeys : Persisted(i).total_requests_today <= rpd_limit

\* C2: the persisted requests_this_minute of every key never exceeds the
\* per-minute limit.
C2_MinuteCounterWithinLimit ==
    \A i \in PersistedKeys : Persisted(i).requests_this_minute <= rpm_limit

\* C3: the key get_available_key returns has, in the ledger the selection
\* loaded and reset, a total_requests_today below the daily limit.
C3_SelectedKeyBelowDailyLimit ==
    pc = "request" =>
        /\ key_idx \in DOMAIN states
        /\ states[key_idx].total_requests_today < rpd_limit

\* C3's case: a key was returned while another key, visited first, stood at
\* the daily limit of today.
C3_Witness ==
    /\ pc = "request"
    /\ \E j \in DOMAIN states :
        /\ j # key_idx
        /\ states[j].last_reset_date = Today(now)
        /\ states[j].total_requests_today >= rpd_limit

\* C4: a key is never returned by get_available_key while 60 s or less have
\* passed since record_attempt(key, 429) completed.
C4_ThrottledKeyNotSelected ==
    pc = "request" =>
        \A t \in t429[key_idx] : now - t > Secs(MinuteWindow)

\* C4's case: within 60 s of a 429 on key i a selection ran and returned
\* another key.
C4_Witness ==
    /\ pc = "request"
    /\ \E i \in KeyIndices(nkeys) : \E t \in t429[i] :
        i # key_idx /\ now - t <= Secs(MinuteWindow)

\* C5: when a selection is about to run, every key whose persisted
\* last_reset_date is not today and which passes the spacing and minute checks
\* is a key the selection can return, whatever its stored total_requests_today.
C5_StaleDateKeySelectable ==
    (pc = "loop" /\ retry < RetryCeiling) =>
        \A i \in PersistedKeys \cap KeyIndices(nkeys) :
            ( /\ Persisted(i).last_reset_date # Today(now)
              /\ now - Persisted(i).last_request_time >= Secs(KeySpacing)
              /\ \/ now - Persisted(i).last_request_time > Secs(MinuteWindow)
                 \/ Persisted(i).requests_this_minute < rpm_limit )
            => \E order \in Shuffles(nkeys) :
                 get_available_key(quota_file, nkeys, now, order).idx = i

\* C5's case: the key just returned has a persisted record dated before today
\* whose stored total is at the daily limit.
C5_Witness ==
    /\ pc = "request"
    /\ key_idx \in PersistedKeys
    /\ Persisted(key_idx).last_reset_date # Today(now)
    /\ Persisted(key_idx).total_requests_today >= rpd_limit

\* C6: when a key whose persisted last_reset_date is an earlier date is
\* selected today and the success is recorded, the persisted record is dated
\* today and its total_requests_today is 1.
C6_DailyCounterCountsToday ==
    [][ ( /\ ReturnsText
          /\ key_idx \in PersistedKeys
          /\ Persisted(key_idx).last_reset_date # Today(now)
          /\ Today(now') = Today(now) )
        => /\ quota_file'.data[key_idx].last_reset_date = Today(now')
           /\ quota_file'.data[key_idx].total_requests_today = 1 ]_vars

\* C7: when a key idle for more than 60 s is selected and the success is
\* recorded, its persisted requests_this_minute is 1.
C7_MinuteCounterRestarts ==
    [][ ( /\ ReturnsText
          /\ key_idx \in PersistedKeys
          /\ now - Persisted(key_idx).last_request_time > Secs(MinuteWindow) )
        => quota_file'.data[key_idx].requests_this_minute = 1 ]_vars

\* C8: when the cache holds an unexpired entry for the prompt, the call
\* returns that entry's text at once: no key is selected, no request issued,
\* ledger and cache stay as they are.
C8_CacheHitReturnsCached ==
    [][ ( /\ pc = "lookup"
          /\ CacheIndex(cache, md5(prompt)) # 0
          /\ now - cache[CacheIndex(cache, md5(prompt))].timestamp < Secs(CacheTTL) )
        => /\ pc' = "done"
           /\ result' = cache[CacheIndex(cache, md5(prompt))].response
           /\ UNCHANGED <<quota_file, cache>> ]_vars

\* C9: once a call for a prompt has returned the text of a 200 answer, a later
\* call for that prompt within 48 h, its entry still in the cache, returns
\* without a provider request and without touching the ledger.
C9_RepeatServedFromCache ==
    [][ ( /\ pc = "lookup"
          /\ \E t \in okTime[prompt] : now - t < Secs(CacheTTL)
          /\ CacheIndex(cache, md5(prompt)) # 0 )
        => /\ pc' = "done"
           /\ UNCHANGED quota_file ]_vars

\* C10: a 200 answer ends the call: record_success has run exactly once in
\* it, the text is in the cache and is what the call returns.
C10_SuccessIsTerminal ==
    [][ (pc = "request" /\ last_status' = 200)
        => /\ pc' = "done"
           /\ n_success' = 1
           /\ CacheIndex(cache', md5(prompt)) # 0
           /\ cache'[CacheIndex(cache', md5(prompt))].response = result' ]_vars

\* the step in which a status other than 200 and 429 is handled
HardFailureStep ==
    pc = "request" /\ last_status' \notin {200, 429, TransportFault}

\* C11: a status other than 200 and 429 is recorded as an attempt of the key
\* in use and "Error: <status>" is returned at once: no further iteration or
\* request, the cache untouched, and both counters of every key as they were.
C11_HardFailureReturnedAtOnce ==
    [][HardFailureStep =>
        /\ pc' = "done"
        /\ result' = "Error: " \o ToString(last_status')
        /\ retry' = retry /\ n_requests' = n_requests
        /\ cache' = cache
        /\ quota_file'.exists
        /\ quota_file'.data[key_idx].last_request_time = now'
        /\ \A i \in DOMAIN quota_file'.data :
            LET before == IF i \in PersistedKeys THEN Persisted(i)
                          ELSE FreshState(Today(now))
            IN /\ quota_file'.data[i].requests_this_minute
                    = before.requests_this_minute
               /\ quota_file'.data[i].total_requests_today
                    = before.total_requests_today]_vars

\* a call ended at its first request by a 500, on a key whose daily counter
\* is not zero
C11_Witness ==
    /\ pc = "done" /\ last_status = 500 /\ result = "Error: 500"
    /\ retry = 0
    /\ Persisted(key_idx).total_requests_today > 0
    /\ Persisted(key_idx).last_request_time = now

\* C12: when requests.post raises instead of answering, the call sleeps 5 s
\* and goes on with the next iteration, and the ledger file is exactly as it
\* was before that iteration began (the key selection writes nothing either).
C12_FaultLeavesLedgerAlone ==
    [][/\ (pc = "request" /\ last_status' = TransportFault) =>
            /\ pc' = "loop"
            /\ retry' = retry + 1
            /\ \E d \in RequestDurations : now' = now + d + Secs(5)
            /\ quota_file' = quota_file
            /\ cache' = cache
       /\ pc = "loop" => quota_file' = quota_file]_vars

\* after a fault on a configured key the ledger file is still missing
C12_Witness ==
    /\ pc = "loop" /\ last_status = TransportFault /\ retry = 1
    /\ key_idx \in KeyIndices(nkeys)
    /\ ~quota_file.exists

\* key i passes the three conditions of get_available_key at this moment, the
\* date and minute resets applied to its record
Qualifies(i) ==
    /\ quota_file.exists => i \in PersistedKeys
    /\ LET r == IF quota_file.exists THEN Persisted(i) ELSE FreshState(Today(now))
           idle == now - r.last_request_time
       IN /\ (r.last_reset_date = Today(now) => r.total_requests_today < 1000)
          /\ idle >= Secs(6)
          /\ (idle > Secs(60) \/ r.requests_this_minute < 10)

\* C13: a key selection reports that no key is available only when no
\* configured key passes the three conditions; when one passes, a passing key
\* is returned. So with key 0 just throttled by a 429 and key 1 passing, the
\* next call's request goes out with key 1.
C13_NoKeyOnlyWhenNoneQualifies ==
    [][(pc = "loop" /\ retry < RetryCeiling) =>
        IF \E i \in KeyIndices(nkeys) : Qualifies(i)
        THEN pc' = "request" /\ Qualifies(key_idx')
        ELSE pc' = "loop" /\ retry' = retry + 1]_vars

\* two keys; key 0 got a 429 within the last minute; the call after that one
\* missed the cache and its first selection returned key 1
C13_Witness ==
    /\ nkeys >= 2 /\ pc = "request" /\ retry = 0 /\ key_idx = 1
    /\ \E t \in t429[0] : now - t <= Secs(60)
    /\ t429[1] = {}

\* C14: with no key configured (and so nothing cached) a call returns a
\* configuration-failure value that is not the exhaustion value, and issues no
\* provider request.
C14_NoKeysIsNotExhaustion ==
    (nkeys = 0 /\ pc = "done") =>
        /\ result # ExhaustedString
        /\ n_requests = 0

\* C15: with no key configured a call is never retried: it returns without a
\* backoff sleep and without a further loop iteration.
C15_NoKeysNeverRetried ==
    [][(nkeys = 0 /\ pc = "loop") =>
        /\ pc' = "done"
        /\ now' = now
        /\ retry' = retry]_vars

\* C16: every call returns, after at most 20 loop iterations and at most 20
\* provider requests.
C16_CallTerminatesWithinCeiling ==
    /\ [](retry <= 20 /\ n_requests <= 20)
    /\ (pc = "lookup") ~> (pc = "done")

\* a call that returned after 20 provider requests
C16_Witness ==
    pc = "done" /\ n_requests = 20 /\ retry >= 19

\* C17: a call returns the exhaustion value exactly when its 20 iterations
\* have completed and each of them ended in a no-key wait, a 429 or a failed
\* request (so none of them saw a 200); the exhaustion value is none of the
\* "Error: <status>" values.
C17_ExhaustionOnlyAfterRefusals ==
    pc = "done" =>
        /\ result = ExhaustedString <=> retry = 20
        /\ result = ExhaustedString => n_success = 0
        /\ \A rsp \in Responses : ExhaustedString # ErrorString(rsp.status)

C19_GenerateNeverRaises ==
    pc # "raised"

\* C20: whatever the cache held before (the 2000-entry cap included, where the
\* store evicts), the lookup that follows a store of text r for a prompt
\* returns r.
C20_StoreThenLookup ==
    [][(pc = "stored" /\ pc' = "looked") => result' = result]_vars

\* a lookup that returned the text just stored by a store that evicted
C20_Witness ==
    /\ pc = "looked" /\ result = "hello"
    /\ Len(cache) = 2000 + 1 - 100
    /\ \E k \in 1..Len(cache) : cache[k].hash = md5(prompt) /\ cache[k].timestamp = now

StoreOverflows ==
    /\ pc' = "stored"
    /\ Len(cache) = 2000
    /\ \A k \in 1..Len(cache) : cache[k].hash # md5(prompt')

\* C22 as stated: a store that takes the cache past 2000 entries leaves at
\* most 1900 entries in the file.
C22_EvictionLeavesAtMost1900 ==
    [][StoreOverflows => Len(cache') <= 1900]_vars

\* C22 as the code has it: a store that takes the cache past 2000 entries
\* leaves 1901 entries in the file, the 2001 there were less the 100 evicted.
C22_EvictionLeaves1901 ==
    [][StoreOverflows => Len(cache') = 1901]_vars

\* a store has just evicted
C22_Witness ==
    pc = "stored" /\ Len(cache) = 1901

\* the entries of a cache file, as a set
Entries(c) == {c[k] : k \in 1..Len(c)}

\* C23: when a store evicts, exactly 100 entries go, and they are the ones with
\* the smallest timestamps: every entry that stays is at least as recent as
\* every entry that went.
C23_EvictsTheOldest ==
    [][StoreOverflows =>
        LET written == [hash |-> md5(prompt'), timestamp |-> now',
                        response |-> result']
            before == Entries(cache) \cup {written}
            evicted == before \ Entries(cache')
        IN  /\ Entries(cache') \subseteq before
            /\ Cardinality(evicted) = 100
            /\ \A e \in evicted : \A s \in Entries(cache') :
                    s.timestamp >= e.timestamp]_vars

\* a store evicted from a file whose oldest entries were its last ones
C23_Witness ==
    /\ pc = "stored" /\ Len(cache) = 1901
    /\ cache[1].timestamp > cache[2].timestamp
    /\ cache[Len(cache)].timestamp = now

\* C25: loading a ledger file that is missing or does not parse gives one
\* record per configured key index 0..k-1, each with both counters 0,
\* last_request_time 0 and today's date.
C25_FreshLedgerOnBadFile ==
    quota_file.json = "none" =>
        LET loaded == load_states(quota_file, nkeys, now) IN
        /\ DOMAIN loaded = 0..(nkeys - 1)
        /\ \A i \in DOMAIN loaded :
            loaded[i] = [requests_this_minute |-> 0, last_request_time |-> 0,
                         total_requests_today |-> 0,
                         last_reset_date |-> Today(now)]

\* the ledger file holds text that does not parse, and a key was selected
\* from the records made up for it
C25_Witness ==
    /\ quota_file.exists /\ quota_file.json = "none"
    /\ pc = "request" /\ key_idx \in KeyIndices(nkeys)
    /\ states[key_idx].total_requests_today = 0

\* the step in which record_attempt runs: a 429 or another status that is not
\* 200 has come back
AttemptRecorded ==
    pc = "request" /\ last_status' \notin {200, TransportFault}

\* C27: record_attempt leaves total_requests_today and last_reset_date of
\* every key as the file had them, and every field of every other key; for a
\* status other than 429 it leaves requests_this_minute of the key alone too.
C27_AttemptConsumesNoDailyQuota ==
    [][AttemptRecorded =>
        LET before == load_states(quota_file, nkeys, now)
            after == quota_file'.data
        IN  /\ quota_file'.exists
            /\ DOMAIN after = DOMAIN before
            /\ \A i \in DOMAIN after :
                /\ after[i].total_requests_today = before[i].total_requests_today
                /\ after[i].last_reset_date = before[i].last_reset_date
                /\ i # key_idx => after[i] = before[i]
            /\ last_status' # 429 =>
                after[key_idx].requests_this_minute
                    = before[key_idx].requests_this_minute]_vars

\* a 429 came back on a key one success short of the daily limit, and the
\* file still counts 999
C27_Witness ==
    /\ pc = "loop" /\ last_status = 429
    /\ Persisted(key_idx).total_requests_today = 999
    /\ Persisted(key_idx).requests_this_minute = 10
    /\ Persisted(key_idx).last_request_time \in t429[key_idx]

\* C28: the key pool is the list of the items of the comma-separated value
\* that are not blank, each without the spaces around it, in the order they
\* have in the value; an unset or empty value, or one of commas and spaces
\* only, gives an empty pool.
C28_PoolIsTheTrimmedItems ==
    LET raw == IF env.set THEN env.text ELSE <<>>
        cuts == {0, Len(raw) + 1} \cup {i \in 1..Len(raw) : raw[i] = ","}
        NextCut(a) == CHOOSE b \in cuts : b > a /\ \A c \in cuts : c > a => b <= c
        Solid(a) == {i \in (a + 1)..(NextCut(a) - 1) : raw[i] # " "}
        First(a) == CHOOSE i \in Solid(a) : \A j \in Solid(a) : i <= j
        Last(a) == CHOOSE i \in Solid(a) : \A j \in Solid(a) : i >= j
        kept == {a \in cuts \ {Len(raw) + 1} : Solid(a) # {}}
        pool == load_keys(env)
    IN  /\ nkeys = Len(pool)
        /\ Len(pool) = Cardinality(kept)
        /\ \A a \in kept :
            pool[Cardinality({x \in kept : x <= a})] = SubSeq(raw, First(a), Last(a))

\* the value " j,k" gave the pool j, k, and the second key is in use
C28_Witness ==
    /\ env.set /\ env.text = <<" ", "j", ",", "k">>
    /\ load_keys(env) = << <<"j">>, <<"k">> >>
    /\ pc = "request" /\ key_idx = 1


\* C29: every key returned by get_available_key has, at the time of the call
\* and in the records as the staleness resets left them, a last_request_time
\* at least 6 s in the past and a requests_this_minute below 10.
C29_ReturnedKeyIsSpacedAndBelowRpm ==
    pc = "request" =>
        /\ key_idx \in DOMAIN states
        /\ now - states[key_idx].last_request_time >= Secs(6)
        /\ states[key_idx].requests_this_minute < 10

\* C29's case: the key was refused as too recently used, the call slept, and
\* the next selection returned it with its minute counter still counting the
\* earlier request
C29_Witness ==
    /\ pc = "request" /\ retry >= 1
    /\ states[key_idx].requests_this_minute >= 1
    /\ now - states[key_idx].last_request_time <= Secs(MinuteWindow)


\* C30: on a 429, call_gemini sleeps for half of the retryDelay the provider
\* suggests, or for half of 15 s (7.5 s) when the answer carries none, before
\* it goes round the retry loop again.
C30_SleepsHalfTheRetryDelay ==
    [][(pc = "request" /\ last_status' = 429) =>
        /\ pc' = "loop" /\ retry' = retry + 1
        /\ \E d \in RequestDurations :
            now' = now + d +
                (IF last_details' = <<>> THEN Secs(15)
                 ELSE last_details'[Len(last_details')]) \div 2]_vars

\* C30 as the code has it: the suggested retryDelay is first raised by 2 s,
\* and half of that sum is slept; without a retryDelay the sleep is 7.5 s.
C30_SleepsHalfTheRetryDelayPlusTwo ==
    [][(pc = "request" /\ last_status' = 429) =>
        /\ pc' = "loop" /\ retry' = retry + 1
        /\ \E d \in RequestDurations :
            now' = now + d +
                (IF last_details' = <<>> THEN Secs(15)
                 ELSE last_details'[Len(last_details')] + Secs(2)) \div 2]_vars

\* a 429 suggesting 118 s was answered and the call is back in the loop, 60 s
\* after the attempt was recorded
C30_Witness ==
    /\ pc = "loop" /\ last_status = 429 /\ last_details = <<Secs(118)>>
    /\ \E t \in t429[key_idx] : now = t + Secs(60)


\* C24: starting from a cache file of at most 2000 entries, whatever stores
\* the processes make, one after another or interleaved, the cache file never
\* holds more than 2000 entries.
C24_PersistedCacheWithinCap == Len(cache) <= 2000

\* C24's case: the file held 1999 entries; two processes stored different
\* prompts, each having read the file before the other wrote. One has written
\* its 2000 entries, the other is about to write its own 2000 on top, and
\* neither has the other's entry
C24_Witness ==
    /\ Len(cache) = 2000
    /\ \E v \in Procs :
        /\ procs[v].pc = "overlapped"
        /\ Len(procs[v].cache) = 2000
        /\ CacheIndex(cache, md5(procs[v].prompt)) = 0
        /\ \E k \in 1..Len(cache) : CacheIndex(procs[v].cache, cache[k].hash) = 0


\* C26: with two processes sharing the ledger, once a request with key i
\* started while another process's request with it was unrecorded, and all
\* requests are recorded as successes, the requests made with key i today
\* exceed the daily limit by at most one for each such racing start.
C26_ExcessAtMostOnePerRace ==
    \A i \in KeyIndices(nkeys) :
        (usage[i].races >= 1 /\ \A w \in Procs : procs[w].pc = "idle") =>
            usage[i].made <= rpd_limit + usage[i].races


\* C31: in an iteration of call_gemini's loop after the first, the request is
\* never issued with a key whose last 429 is 60 s old or less, and it is
\* issued, with a key that qualifies, whenever some key qualifies. So after a
\* 429 on key i the same call turns to another key.
C31_ThrottledKeyAvoidedWithinTheCall ==
    [][(pc = "loop" /\ retry >= 1 /\ retry < RetryCeiling) =>
        /\ pc' = "request" =>
            \A t \in t429[key_idx'] : now - t > Secs(60)
        /\ (\E j \in KeyIndices(nkeys) : Qualifies(j)) =>
            pc' = "request" /\ Qualifies(key_idx')]_vars

\* the call got a 429 on one key, slept, and its next iteration sent the
\* request with the other key, 60 s or less after the 429
C31_Witness ==
    /\ pc = "request" /\ retry >= 1 /\ n_requests = 2 /\ last_status = 429
    /\ \E i \in KeyIndices(nkeys) : \E t \in t429[i] :
        i # key_idx /\ now - t <= Secs(60)


\* C32: record_success(i), with no other process at work, writes a ledger in
\* which the record of key i has requests_this_minute and total_requests_today
\* one higher than the file had them and last_request_time at the time of the
\* call, with the same last_reset_date, and in which every other record is as
\* the file had it. (Without a file, what the file "had" is a fresh record for
\* each configured key.)
C32_SuccessCountsOneOnThePersistedRecord ==
    [][(pc = "request" /\ last_status' = 200) =>
        \E d \in RequestDurations :
            LET t == now + d
                old == IF quota_file.exists THEN quota_file.data
                       ELSE [j \in KeyIndices(nkeys) |-> FreshState(Today(t))]
                new == quota_file'.data
            IN  /\ quota_file'.exists /\ quota_file'.json = "object"
                /\ DOMAIN new = DOMAIN old
                /\ \A j \in DOMAIN old \ {key_idx} : new[j] = old[j]
                /\ new[key_idx].requests_this_minute =
                        old[key_idx].requests_this_minute + 1
                /\ new[key_idx].total_requests_today =
                        old[key_idx].total_requests_today + 1
                /\ new[key_idx].last_request_time = t
                /\ new[key_idx].last_reset_date = old[key_idx].last_reset_date]_vars

\* a success was just recorded for a key whose record is dated an earlier day,
\* next to a worn record of the other key
C32_Witness ==
    /\ pc = "done" /\ last_status = 200 /\ nkeys >= 2
    /\ quota_file.exists
    /\ Persisted(key_idx).last_request_time = now
    /\ Persisted(key_idx).last_reset_date # Today(now)
    /\ \E j \in PersistedKeys \ {key_idx} : Persisted(j) = WornState(StartTime)


\* C33: with one process at work, a lookup, of an expired entry too, leaves
\* the cache file as it is; a store for a prompt leaves every entry of another
\* hash as it is or removes it, creates no entry of another hash, and removes
\* entries only when the dictionary with the new entry is over the cap.
C33_EntriesGoOnlyByEviction ==
    [][/\ pc' = "looked" => cache' = cache
       /\ pc' = "stored" =>
            LET fp == md5(prompt')
                others(c) == {e \in Entries(c) : e.hash # fp}
            IN  /\ others(cache') \subseteq others(cache)
                /\ Cardinality({e.hash : e \in Entries(cache)} \cup {fp}) <= 2000
                    => others(cache') = others(cache)]_vars

\* the second of two lookups has just found the entry of prompt 1 expired, in
\* a file at the cap that still holds it
C33_Witness ==
    /\ pc = "looked" /\ result = None /\ prompt = 1 /\ events = 2
    /\ Len(cache) = 2000
    /\ CacheIndex(cache, md5(1)) # 0
    /\ now - cache[CacheIndex(cache, md5(1))].timestamp >= Secs(172800)


\* C34: with one process at work, a request is sent with a key only when the
\* last request sent with that key, whatever became of it, is at least 6 s
\* back.
C34_RequestsOfAKeySixSecondsApart ==
    [][(pc = "loop" /\ pc' = "request") =>
        \A t \in usage[key_idx'].sent : now - t >= Secs(6)]_vars


\* C35: with a ledger file that lacks the record of a configured key, that key
\* is never the one a request goes out with, the file never gets a record for
\* it, and record_success and record_attempt called for it would leave the
\* file as it is.
C35_KeyWithoutRecordStaysOut ==
    /\ quota_file.exists /\ quota_file.json = "object"
    /\ (nkeys - 1) \notin PersistedKeys
    /\ pc = "request" => key_idx \in PersistedKeys
    /\ \A i \in KeyIndices(nkeys) \ PersistedKeys :
        /\ SavedIfKnown(quota_file, nkeys, i,
                        record_success(quota_file, nkeys, i, now), now) = quota_file
        /\ \A status \in {429, 500} :
            SavedIfKnown(quota_file, nkeys, i,
                         record_attempt(quota_file, nkeys, i, status, now), now)
                = quota_file

\* two keys, a record for key 0 only: key 0 was used and is too recent, key 1
\* was passed over, and the call sleeps for want of a key
C35_Witness ==
    /\ nkeys = 2 /\ PersistedKeys = {0}
    /\ pc = "loop" /\ retry >= 1 /\ last_status = 0
    /\ usage[0].sent # {} /\ usage[1].sent = {}


\* the 200 answers received so far by all processes: each request made is
\* answered 200, and it is while the process has not gone on to record_success
\* that the answer is still to come
Received200 ==
    LET upTo[w \in 0..MaxProcs] ==
            IF w = 0 THEN 0
            ELSE upTo[w - 1] + procs[w].calls
                             - (IF procs[w].pc = "request" THEN 1 ELSE 0)
    IN  upTo[MaxProcs]

\* C36: however the processes interleave, the total_requests_today the ledger
\* file holds for the key is never more than the number of 200 answers
\* received with it since the file was created.
C36_LedgerNeverOverCounts ==
    \A i \in PersistedKeys :
        quota_file.data[i].total_requests_today <= Received200

\* both processes have received a 200 and recorded the success, each having
\* read the ledger before the other wrote it: the file counts one
C36_Witness ==
    /\ \A w \in Procs : procs[w].pc = "idle"
    /\ Received200 = 2
    /\ quota_file.json = "object"
    /\ Persisted(0).total_requests_today = 1


\* C37: with two processes on the ledger, get_available_key returns to no
\* process a key for which a record_attempt(i, 429) completed 60 s ago or
\* less, whatever the processes wrote for other keys since.
C37_ThrottledKeyStaysOutForAllProcesses ==
    [][\A w \in Procs :
        (procs[w].pc = "idle" /\ procs'[w].pc = "request") =>
            \A t \in t429[procs'[w].key_idx] : now - t > Secs(60)]_vars


\* C38: with two processes on the cache file, once both have completed a
\* store, for prompts of different fingerprints and with the cache far from
\* its cap, the persisted cache holds both entries.
C38_BothStoresPersisted ==
    \A v, w \in Procs :
        (/\ v # w
         /\ procs[v].pc = "idle" /\ procs[w].pc = "idle"
         /\ procs[v].prompt # 0 /\ procs[w].prompt # 0
         /\ md5(procs[v].prompt) # md5(procs[w].prompt)
         /\ Len(cache) < CacheCap - MaxProcs) =>
            /\ CacheIndex(cache, md5(procs[v].prompt)) # 0
            /\ CacheIndex(cache, md5(procs[w].prompt)) # 0


\* C39: in every interleaving of two processes, a text that call_gemini
\* returns for prompt p is a text the provider returned in a 200 answer to a
\* request for a prompt of p's fingerprint: the answer of this very call, or
\* one found in the cache under that fingerprint in an entry less than 48 h
\* old at the lookup.
C39_ReturnedTextCameFromTheProvider ==
    [][\A w \in Procs :
        /\ (procs[w].pc = "request" /\ procs'[w].pc = "loaded") =>
                procs'[w].response \in provided'[md5(procs'[w].prompt)]
        /\ (/\ procs[w].pc = "idle" /\ procs'[w].pc = "idle"
            /\ procs'[w].calls = procs[w].calls + 1) =>
                /\ procs'[w].response \in provided[md5(procs'[w].prompt)]
                /\ \E k \in 1..Len(cache) :
                    /\ cache[k].hash = md5(procs'[w].prompt)
                    /\ cache[k].response = procs'[w].response
                    /\ now - cache[k].timestamp < Secs(172800)]_vars

\* C39's case: nearly 48 h after the start a process was returned a text from
\* the cache, the provider's answer for its fingerprint, while the other
\* process is storing a different answer for the other fingerprint
C39_Witness ==
    \E v, w \in Procs :
        /\ v # w
        /\ procs[w].pc = "idle" /\ procs[w].calls >= 1
        /\ procs[w].response = "other"
        /\ provided[md5(procs[w].prompt)] = {"other"}
        /\ procs[v].pc = "opened" /\ procs[v].response = "hello"
        /\ provided[md5(procs[v].prompt)] = {"hello"}
        /\ now >= StartTime + Secs(172800) - Secs(1)
====
